---- MODULE Spec2Model ----
(***************************************************************************)
(* Model of the /poetry pre-rendering worker (src/src/index.js).  The      *)
(* copy src/unnamed/part_000 has the same normalizers and the same fetch() *)
(* and differs in the image of the poem page only.                         *)
(*                                                                         *)
(* A JavaScript string is a sequence of one-character strings.  The       *)
(* characters that a TLA+ string cannot hold carry a name: "LF" (line      *)
(* feed), "TAB", "e-acute" (U+00E9), "U+0301" (combining acute accent),    *)
(* "U+2018" and "U+2019" (curly quotes), "U+0060" (grave accent).          *)
(***************************************************************************)
EXTENDS Integers, Sequences, FiniteSets, TLC

VARIABLES norm,       \* SpecNorm: a title and what the normalizers made of it
          request,    \* the incoming request: [pathname, ua]
          env,        \* the worker's bindings: collection key -> source URL
          pc,         \* where the invocation of fetch() stands
          loopAt,     \* index into Object.entries(COLLECTIONS) of the loop
          book,       \* `book` of fetch(): NULL or the book found
          collectionKey, \* `collectionKey` of fetch()
          poem,       \* `poem` of fetch(): null or the poem found
          inflight,   \* the collection fetches issued and not yet answered
          fetchLog,   \* the collection fetches issued, in order of issue
          answers,    \* what each collection fetch was answered with
          result,     \* how the invocation ended
          page,       \* SpecRender: a book and the pages rendered from it
          calls,      \* SpecConc: each invocation's arguments and position
          bindings,   \* SpecConc: the `let` variables of lines 65-66
          outbound    \* SpecConc: the subrequests the invocations have made

handlerVars == <<request, env, pc, loopAt, book, collectionKey, poem, inflight,
                 fetchLog, answers, result>>

concVars == <<calls, bindings, outbound>>

vars == <<norm, handlerVars, page, concVars>>

\* ------------------------------------------------------------ characters

LowerLetters ==
    {"a", "b", "c", "d", "e", "f", "g", "h", "i", "j", "k", "l", "m", "n", "o",
     "p", "q", "r", "s", "t", "u", "v", "w", "x", "y", "z"}

Digits == {"0", "1", "2", "3", "4", "5", "6", "7", "8", "9"}

\* What String.prototype.toLowerCase maps, among the characters modelled.
LowerOf ==
    ("A" :> "a") @@ ("B" :> "b") @@ ("C" :> "c") @@ ("D" :> "d") @@ ("E" :> "e") @@
    ("F" :> "f") @@ ("G" :> "g") @@ ("H" :> "h") @@ ("I" :> "i") @@ ("J" :> "j") @@
    ("K" :> "k") @@ ("L" :> "l") @@ ("M" :> "m") @@ ("N" :> "n") @@ ("O" :> "o") @@
    ("P" :> "p") @@ ("Q" :> "q") @@ ("R" :> "r") @@ ("S" :> "s") @@ ("T" :> "t") @@
    ("U" :> "u") @@ ("V" :> "v") @@ ("W" :> "w") @@ ("X" :> "x") @@ ("Y" :> "y") @@
    ("Z" :> "z")

\* The class [a-z0-9] of the regular expressions.
IsAlnum(c) == c \in LowerLetters \cup Digits

\* The class \s of the regular expressions, which is also what trim() strips.
IsSpace(c) == c \in {" ", "TAB", "LF"}

\* The class of the four quote characters (lines 20 and 38).
IsQuote(c) == c \in {"U+2018", "U+2019", "'", "U+0060"}

\* ------------------------------------------------------- string methods

\* String.prototype.toLowerCase
toLowerCase(s) ==
    [i \in 1..Len(s) |-> IF s[i] \in DOMAIN LowerOf THEN LowerOf[s[i]] ELSE s[i]]

\* String.prototype.normalize("NFD"): a precomposed letter becomes its base
\* letter followed by the combining mark.
RECURSIVE normalizeNFD(_)
normalizeNFD(s) ==
    IF s = <<>> THEN <<>>
    ELSE (IF Head(s) = "e-acute" THEN <<"e", "U+0301">> ELSE <<Head(s)>>)
         \o normalizeNFD(Tail(s))

RECURSIVE TrimStart(_)
TrimStart(s) ==
    IF s # <<>> /\ IsSpace(Head(s)) THEN TrimStart(Tail(s)) ELSE s

RECURSIVE TrimEnd(_)
TrimEnd(s) ==
    IF s # <<>> /\ IsSpace(s[Len(s)]) THEN TrimEnd(SubSeq(s, 1, Len(s) - 1)) ELSE s

\* String.prototype.trim
trim(s) == TrimEnd(TrimStart(s))

\* String.prototype.includes
includes(s, part) ==
    \E i \in 0..(Len(s) - Len(part)) : SubSeq(s, i + 1, i + Len(part)) = part

\* .replace(/[<quotes>]/g, '')
RemoveQuotes(s) == SelectSeq(s, LAMBDA c : ~IsQuote(c))

\* .replace(/[^a-z0-9\s]/g, ' ')
PunctToSpace(s) ==
    [i \in 1..Len(s) |-> IF IsAlnum(s[i]) \/ IsSpace(s[i]) THEN s[i] ELSE " "]

\* .replace(/[^a-z0-9\s]/g, '')
PunctRemoved(s) == SelectSeq(s, LAMBDA c : IsAlnum(c) \/ IsSpace(c))

\* .replace(/\s+/g, by): every maximal run of white space becomes `by`.
RECURSIVE SpaceRunsTo(_, _)
SpaceRunsTo(s, by) ==
    IF s = <<>> THEN <<>>
    ELSE IF IsSpace(Head(s)) THEN <<by>> \o SpaceRunsTo(TrimStart(s), by)
    ELSE <<Head(s)>> \o SpaceRunsTo(Tail(s), by)

RECURSIVE DropHyphens(_)
DropHyphens(s) ==
    IF s # <<>> /\ Head(s) = "-" THEN DropHyphens(Tail(s)) ELSE s

\* .replace(/-+/g, "-")
RECURSIVE HyphenRunsToOne(_)
HyphenRunsToOne(s) ==
    IF s = <<>> THEN <<>>
    ELSE IF Head(s) = "-" THEN <<"-">> \o HyphenRunsToOne(DropHyphens(s))
    ELSE <<Head(s)>> \o HyphenRunsToOne(Tail(s))

\* .replace(/^-|-$/g, ""): one hyphen off the front and one off the end.
EdgeHyphensRemoved(s) ==
    LET t == IF s # <<>> /\ Head(s) = "-" THEN Tail(s) ELSE s
    IN  IF t # <<>> /\ t[Len(t)] = "-" THEN SubSeq(t, 1, Len(t) - 1) ELSE t

\* .replace(/-/g, ' ')
HyphensToSpaces(s) == [i \in 1..Len(s) |-> IF s[i] = "-" THEN " " ELSE s[i]]

\* ---------------------------------------------------------- normalizers

\* A createSlug that joins the words with hyphens before it clears the
\* punctuation, so that the hyphens it made are cleared again.
createSlugHyphensFirst(title) ==
    EdgeHyphensRemoved(HyphenRunsToOne(
        PunctToSpace(SpaceRunsTo(trim(
            RemoveQuotes(normalizeNFD(toLowerCase(title)))), "-"))))

createSlug(title) ==
    EdgeHyphensRemoved(HyphenRunsToOne(
        SpaceRunsTo(trim(PunctToSpace(
            RemoveQuotes(normalizeNFD(toLowerCase(title))))), "-")))

cleanTitleForMatch(title) ==
    trim(SpaceRunsTo(PunctRemoved(
        RemoveQuotes(normalizeNFD(toLowerCase(title)))), " "))

\* `searchString` of fetch(), from the lower-cased poem segment.
searchString(poemSlugRaw) ==
    trim(SpaceRunsTo(PunctToSpace(HyphensToSpaces(poemSlugRaw)), " "))

\* ------------------------------------------------------------- SpecNorm
\* The normalizers applied to every title of at most MaxLen characters.

MaxLen == 3

TitleChars == {"a", "B", "1", " ", "-", "'", "!", "e-acute"}

Titles == UNION {[1..n -> TitleChars] : n \in 0..MaxLen}

Idle == [stage |-> "idle"]

HandlerIdle ==
    /\ request = <<>> /\ env = <<>> /\ pc = "idle" /\ loopAt = 0
    /\ book = <<>> /\ collectionKey = <<>> /\ poem = <<>> /\ inflight = {}
    /\ fetchLog = <<>> /\ answers = <<>> /\ result = <<>>

ConcIdle == calls = <<>> /\ bindings = <<>> /\ outbound = {}

InitNorm ==
    /\ norm \in [stage : {"title"}, title : Titles]
    /\ page = Idle
    /\ HandlerIdle
    /\ ConcIdle

\* The book-index page links a poem under createSlug(p.title) (line 155).
Slugify ==
    /\ norm.stage = "title"
    /\ norm' = [stage |-> "slug", title |-> norm.title,
                slug |-> createSlug(norm.title)]
    /\ UNCHANGED <<handlerVars, page, concVars>>

\* The slug is given to createSlug again.
Reslugify ==
    /\ norm.stage = "slug"
    /\ norm' = [stage |-> "reslug", title |-> norm.title, slug |-> norm.slug,
                reslug |-> createSlug(norm.slug)]
    /\ UNCHANGED <<handlerVars, page, concVars>>

\* The slug comes back as the poem segment of a request (lines 63, 106-115):
\* it is lower-cased and made a search string, and the title a match key.
Lookup ==
    /\ norm.stage = "slug"
    /\ norm' = [stage |-> "lookup", title |-> norm.title, slug |-> norm.slug,
                search |-> searchString(toLowerCase(norm.slug)),
                key |-> cleanTitleForMatch(norm.title)]
    /\ UNCHANGED <<handlerVars, page, concVars>>

NextNorm == Slugify \/ Reslugify \/ Lookup

SpecNorm == InitNorm /\ [][NextNorm]_vars

\* A slug as the claim describes it: runs of a-z and 0-9 joined by single
\* hyphens, no hyphen first or last.
WellFormedSlug(s) ==
    /\ \A i \in 1..Len(s) : IsAlnum(s[i]) \/ s[i] = "-"
    /\ \A i \in 1..Len(s) : s[i] = "-" => i > 1 /\ i < Len(s) /\ s[i + 1] # "-"

\* C9: createSlug is idempotent: the slug of a slug is that slug, and every
\* slug is made of a-z and 0-9 joined by single hyphens, none first or last.
C9_SlugIdempotent ==
    /\ norm.stage \in {"slug", "reslug", "lookup"} => WellFormedSlug(norm.slug)
    /\ norm.stage = "reslug" => norm.reslug = norm.slug

\* A title with punctuation, upper case and spaces whose slug was slugged again.
C9_Witness ==
    /\ norm.stage = "reslug"
    /\ norm.title = <<"B", "!", " ">>
    /\ norm.slug = <<"b">>

\* C6: the search string made from a title's own slug equals the title's
\* match key, so the canonical poem URL finds the poem.
C6_RoundTrip ==
    norm.stage = "lookup" => norm.search = norm.key

\* ------------------------------------------------------ optional values
\* null and undefined are the empty tuple, a value x that is there is <<x>>:
\* `book`, `poem`, the user-agent header, pathParts[1].

Some(x) == <<x>>

Has(o) == o # <<>>

Val(o) == o[1]

\* ------------------------------------------------------------- requests

\* The alternatives of the regular expression of line 50.
CrawlerSignatures ==
    {<<"G", "o", "o", "g", "l", "e", "b", "o", "t">>,
     <<"G", "o", "o", "g", "l", "e", "-", "I", "n", "s", "p", "e", "c", "t", "i", "o", "n", "T", "o", "o", "l">>,
     <<"B", "i", "n", "g", "b", "o", "t">>,
     <<"S", "l", "u", "r", "p">>,
     <<"D", "u", "c", "k", "D", "u", "c", "k", "B", "o", "t">>,
     <<"B", "a", "i", "d", "u", "s", "p", "i", "d", "e", "r">>,
     <<"Y", "a", "n", "d", "e", "x", "B", "o", "t">>,
     <<"f", "a", "c", "e", "b", "o", "o", "k", "e", "x", "t", "e", "r", "n", "a", "l", "h", "i", "t">>,
     <<"T", "w", "i", "t", "t", "e", "r", "b", "o", "t">>,
     <<"L", "i", "n", "k", "e", "d", "I", "n", "B", "o", "t">>}

\* `ua` of line 48: request.headers.get("user-agent") || "".
uaOf(req) == IF Has(req.ua) THEN Val(req.ua) ELSE <<>>

\* `isBot` of line 50: /...|...|.../i.test(ua), an unanchored match that
\* ignores case.
isBot(ua) ==
    \E sig \in CrawlerSignatures : includes(toLowerCase(ua), toLowerCase(sig))

PoetryPrefix == <<"/", "p", "o", "e", "t", "r", "y", "/">>

\* A match whose pattern lacks the ^ anchor: /poetry/ is found anywhere in the
\* path.
matchUnanchored(pathname) ==
    LET n == Len(PoetryPrefix)
        At(i) == SubSeq(pathname, i + 1, i + n) = PoetryPrefix
    IN  IF \E i \in 0..(Len(pathname) - n - 1) : At(i)
        THEN Some(SubSeq(pathname,
                         n + 1 + CHOOSE i \in 0..(Len(pathname) - n - 1) :
                                     At(i) /\ \A j \in 0..(i - 1) : ~At(j),
                         Len(pathname)))
        ELSE <<>>

\* `match` of line 52: url.pathname.match(/^\/poetry\/(.+)$/), as the captured
\* group or null.  The dot matches no line terminator.
match(pathname) ==
    LET n == Len(PoetryPrefix)
        rest == SubSeq(pathname, n + 1, Len(pathname))
    IN  IF /\ Len(pathname) > n
           /\ SubSeq(pathname, 1, n) = PoetryPrefix
           /\ \A i \in 1..Len(rest) : rest[i] # "LF"
        THEN Some(rest) ELSE <<>>

\* String.prototype.split("/")
RECURSIVE split(_)
split(s) ==
    IF \A i \in 1..Len(s) : s[i] # "/" THEN <<s>>
    ELSE LET i == CHOOSE j \in 1..Len(s) :
                      s[j] = "/" /\ \A k \in 1..(j - 1) : s[k] # "/"
         IN  <<SubSeq(s, 1, i - 1)>> \o split(SubSeq(s, i + 1, Len(s)))

\* `pathParts` of line 61, for a request that matched.
pathParts(req) == split(Val(match(req.pathname)))

\* `bookSlug` of line 62.
bookSlug(req) == toLowerCase(pathParts(req)[1])

\* `poemSlugRaw` of line 63: an absent or empty second segment is null.
poemSlugRaw(req) ==
    LET parts == pathParts(req)
    IN  IF Len(parts) >= 2 /\ parts[2] # <<>>
        THEN Some(toLowerCase(parts[2])) ELSE <<>>

\* Line 53 negated: the request is rendered for, not passed on at once.
intercepts(req) == Has(match(req.pathname)) /\ isBot(uaOf(req))

\* ---------------------------------------------------------- collections

\* The keys of Object.entries(COLLECTIONS), lines 55-59 and 69, in order.
COLLECTIONS ==
    <<<<"f", "r", "i", "t", "h", "-", "h", "i", "l", "t", "o", "n">>,
      <<"d", "r", "-", "c", "a", "r", "l", "-", "h", "i", "l", "l">>,
      <<"w", "e", "s", "t", "-", "t", "o", "-", "w", "e", "s", "t">>>>

NKeys == Len(COLLECTIONS)

\* `jsonUrl` of the i-th entry of Object.entries(COLLECTIONS), lines 56-58.
jsonUrl(e, i) ==
    CASE i = 1 -> e.FRITH_HILTON_JSON
      [] i = 2 -> e.DR_CARL_HILL_JSON
      [] i = 3 -> e.WEST_TO_WEST_JSON

\* `if (!jsonUrl) continue` of line 70 negated: undefined and "" are falsy.
Configured(e, i) == jsonUrl(e, i) \notin {"undefined", ""}

\* A callback that tests one direction only: the title's slug holds the
\* segment.
bookMatchesOneWay(b, slug) == includes(createSlug(b.bookTitle), slug)

\* A callback for which an empty segment matches no book.
bookMatchesNonEmpty(b, slug) ==
    LET titleSlug == createSlug(b.bookTitle)
    IN  slug # <<>> /\ (includes(titleSlug, slug) \/ includes(slug, titleSlug))

\* The callback of data.find, lines 76-80.
bookMatches(b, slug) ==
    LET titleSlug == createSlug(b.bookTitle)
    IN  includes(titleSlug, slug) \/ includes(slug, titleSlug)

\* Array.prototype.find with the callback of lines 76-80: the first match.
findBook(data, slug) ==
    IF \E i \in 1..Len(data) : bookMatches(data[i], slug)
    THEN Some(data[CHOOSE i \in 1..Len(data) :
                  /\ bookMatches(data[i], slug)
                  /\ \A j \in 1..(i - 1) : ~bookMatches(data[j], slug)])
    ELSE <<>>

\* A poem lookup that accepts a title whose match key contains the search
\* string.
findPoemBySubstring(poems, search) ==
    IF \E i \in 1..Len(poems) : includes(cleanTitleForMatch(poems[i].title), search)
    THEN Some(poems[CHOOSE i \in 1..Len(poems) :
                  /\ includes(cleanTitleForMatch(poems[i].title), search)
                  /\ \A j \in 1..(i - 1) :
                        ~includes(cleanTitleForMatch(poems[j].title), search)])
    ELSE <<>>

\* book.poems.find of lines 113-116: the first poem whose match key is the
\* search string.
findPoem(poems, search) ==
    IF \E i \in 1..Len(poems) : cleanTitleForMatch(poems[i].title) = search
    THEN Some(poems[CHOOSE i \in 1..Len(poems) :
                  /\ cleanTitleForMatch(poems[i].title) = search
                  /\ \A j \in 1..(i - 1) : cleanTitleForMatch(poems[j].title) # search])
    ELSE <<>>

\* The index of the first configured collection from i on, NKeys + 1 if none:
\* the loop of line 69 running to its next fetch.
RECURSIVE nextFetch(_, _)
nextFetch(e, i) ==
    IF i > NKeys \/ Configured(e, i) THEN i ELSE nextFetch(e, i + 1)

\* Loop bodies with a slip, lines 71-89.
\* The fetch is awaited outside the try block: its rejection is not caught.
loopBodyFetchUncaught(answer, slug) ==
    IF answer.type = "reject" THEN [ctl |-> "throw", book |-> <<>>]
    ELSE IF ~answer.ok \/ ~answer.parses THEN [ctl |-> "continue", book |-> <<>>]
    ELSE LET found == findBook(answer.data, slug)
         IN  IF Has(found) THEN [ctl |-> "break", book |-> found]
             ELSE [ctl |-> "continue", book |-> <<>>]

\* A failed collection ends the loop.
loopBodyFailureBreaks(answer, slug) ==
    IF answer.type = "reject" \/ ~answer.ok \/ ~answer.parses
    THEN [ctl |-> "break", book |-> <<>>]
    ELSE LET found == findBook(answer.data, slug)
         IN  IF Has(found) THEN [ctl |-> "break", book |-> found]
             ELSE [ctl |-> "continue", book |-> <<>>]

\* The break of line 85 is missing: the loop goes on after a match.
loopBodyNoBreak(answer, slug) ==
    IF answer.type = "reject" \/ ~answer.ok \/ ~answer.parses
    THEN [ctl |-> "continue", book |-> <<>>]
    ELSE [ctl |-> "continue", book |-> findBook(answer.data, slug)]

\* The loop body once the fetch of line 72 is answered, lines 72-89: what the
\* loop does next and the book found.  A rejected fetch and a body that is
\* no JSON throw inside the try block and are caught at line 87.
loopBody(answer, slug) ==
    IF answer.type = "reject" THEN [ctl |-> "continue", book |-> <<>>]
    ELSE IF ~answer.ok THEN [ctl |-> "continue", book |-> <<>>]
    ELSE IF ~answer.parses THEN [ctl |-> "continue", book |-> <<>>]
    ELSE LET found == findBook(answer.data, slug)
         IN  IF Has(found) THEN [ctl |-> "break", book |-> found]
             ELSE [ctl |-> "continue", book |-> <<>>]

\* ------------------------------------------------------------ rendering

\* `bookUrl` of line 96 without the slug.
PoetryOrigin ==
    <<"h", "t", "t", "p", "s", ":", "/", "/", "w", "w", "w", ".", "f", "r", "i", "t", "h", "h", "i", "l", "t", "o", "n", ".", "c", "o", "m", ".", "n", "g", "/", "p", "o", "e", "t", "r", "y", "/">>

\* The fallback of line 125.
Placeholder ==
    <<"<", "p", ">", "F", "u", "l", "l", " ", "p", "o", "e", "m", " ", "a", "v", "a", "i", "l", "a", "b", "l", "e", " ", "i", "n", " ", "t", "h", "e", " ", "b", "o", "o", "k", ".", "<", "/", "p", ">">>

DigitChars == <<"0", "1", "2", "3", "4", "5", "6", "7", "8", "9">>

\* A number in a template literal or under JSON.stringify.
RECURSIVE numberToString(_)
numberToString(n) ==
    IF n < 10 THEN <<DigitChars[n + 1]>>
    ELSE numberToString(n \div 10) \o <<DigitChars[(n % 10) + 1]>>

\* .replace(/<[^>]*>/g, ""): a "<" with a ">" after it goes with all between.
RECURSIVE stripTags(_)
stripTags(s) ==
    IF s = <<>> THEN <<>>
    ELSE IF Head(s) = "<" /\ \E j \in 2..Len(s) : s[j] = ">"
    THEN LET j == CHOOSE k \in 2..Len(s) :
                      s[k] = ">" /\ \A m \in 2..(k - 1) : s[m] # ">"
         IN  stripTags(SubSeq(s, j + 1, Len(s)))
    ELSE <<Head(s)>> \o stripTags(Tail(s))

\* String.prototype.replace(pattern, by) with a string pattern: the first
\* occurrence only.
replaceFirst(s, pattern, by) ==
    IF includes(s, pattern)
    THEN LET i == CHOOSE j \in 0..(Len(s) - Len(pattern)) :
                      /\ SubSeq(s, j + 1, j + Len(pattern)) = pattern
                      /\ \A k \in 0..(j - 1) : SubSeq(s, k + 1, k + Len(pattern)) # pattern
         IN  SubSeq(s, 1, i) \o by \o SubSeq(s, i + Len(pattern) + 1, Len(s))
    ELSE s

\* book.content[0][n] || fallback: an absent and an empty entry are falsy.
contentOr(b, n, fallback) ==
    IF n \in DOMAIN b.content[1] /\ b.content[1][n] # <<>>
    THEN b.content[1][n] ELSE fallback

\* A poem text that falls back to the empty string, as line 150 does.
poemTextOrEmpty(b, p) == contentOr(b, p.number, <<>>)

\* `poemText` of line 125.
poemTextOf(b, p) == contentOr(b, p.number, Placeholder)

\* JSON.stringify of a string.
RECURSIVE jsonEscape(_)
jsonEscape(s) ==
    IF s = <<>> THEN <<>>
    ELSE (CASE Head(s) = "\"" -> <<"\\", "\"">>
            [] Head(s) = "\\" -> <<"\\", "\\">>
            [] Head(s) = "LF" -> <<"\\", "n">>
            [] Head(s) = "TAB" -> <<"\\", "t">>
            [] OTHER -> <<Head(s)>>) \o jsonEscape(Tail(s))

jsonString(s) == <<"\"">> \o jsonEscape(s) \o <<"\"">>

\* JSON.stringify of one element of `hasPart`, lines 144-151.
chapterJson(c) ==
    <<"{">> \o jsonString(<<"@", "t", "y", "p", "e">>)
    \o <<":">> \o jsonString(<<"C", "h", "a", "p", "t", "e", "r">>)
    \o <<",">> \o jsonString(<<"p", "o", "s", "i", "t", "i", "o", "n">>) \o <<":">> \o numberToString(c.position)
    \o <<",">> \o jsonString(<<"n", "a", "m", "e">>) \o <<":">> \o jsonString(c.name)
    \o <<",">> \o jsonString(<<"u", "r", "l">>) \o <<":">> \o jsonString(c.url)
    \o <<",">> \o jsonString(<<"i", "m", "a", "g", "e">>) \o <<":">> \o jsonString(c.image)
    \o <<",">> \o jsonString(<<"t", "e", "x", "t">>) \o <<":">> \o jsonString(c.text)
    \o <<"}">>

RECURSIVE chaptersJson(_)
chaptersJson(cs) ==
    IF cs = <<>> THEN <<>>
    ELSE chapterJson(Head(cs))
         \o (IF Len(cs) > 1 THEN <<",">> ELSE <<>>) \o chaptersJson(Tail(cs))

\* JSON.stringify(hasPart), line 191.
stringifyHasPart(cs) == <<"[">> \o chaptersJson(cs) \o <<"]">>

\* `hasPart` of lines 142-152.
hasPart(b, canonical) ==
    [i \in 1..Len(b.poems) |->
        [position |-> b.poems[i].number,
         name |-> b.poems[i].title,
         url |-> canonical \o <<"/">> \o createSlug(b.poems[i].title),
         image |-> replaceFirst(b.image, <<"/", "c", "o", "v", "e", "r", ".", "j", "p", "g">>,
                                <<"/">> \o numberToString(b.poems[i].number)
                                \o <<".", "j", "p", "g">>),
         text |-> trim(stripTags(contentOr(b, b.poems[i].number, <<>>)))]]

\* What generateBookPage puts into its JSON-LD block (lines 182-191, in
\* order) and into its table of contents (lines 154-157).
generateBookPage(b, canonical) ==
    [template |-> "book",
     values |-> <<b.bookTitle, b.releaseDate, b.bookTitle, b.dedicatee, b.image,
                  canonical, stringifyHasPart(hasPart(b, canonical))>>,
     body |-> [i \in 1..Len(b.poems) |->
                  canonical \o <<"/">> \o createSlug(b.poems[i].title)]]

\* What generatePoemPage puts into its JSON-LD block (lines 261-272, in order)
\* and into <div class="poem"> (line 291).
generatePoemPage(b, p, poemText, bookUrl, poemUrl, key, slug) ==
    LET cleanText == trim(stripTags(poemText))
        imageBaseName == slug \o <<"_", "p", "o", "e", "m", "-">> \o numberToString(p.number)
    IN  [template |-> "poem",
         values |-> <<p.title, b.releaseDate, poemUrl, cleanText, key, slug,
                      imageBaseName, b.bookTitle, bookUrl, numberToString(p.number)>>,
         body |-> poemText]

\* `return fetch(request)`: the request goes to the origin as it came.
Forwarded(req) == [kind |-> "forward", request |-> req]

\* `return new Response(html, {headers})`.
Rendered(html) ==
    [kind |-> "html", status |-> 200,
     contentType |-> "text/html; charset=utf-8", page |-> html]

\* An exception that leaves fetch().
Thrown == [kind |-> "exception"]

\* `poem` of lines 106-116, for a book found.
poemOf(req, b) ==
    IF Has(poemSlugRaw(req))
    THEN findPoem(b.poems, searchString(Val(poemSlugRaw(req))))
    ELSE <<>>

\* fetch() from line 92 on: what the invocation returns once the loop is over.
respond(req, found, key) ==
    IF ~Has(found) THEN Forwarded(req)
    ELSE LET b == Val(found)
             bookCleanSlug == createSlug(b.bookTitle)
             bookUrl == PoetryOrigin \o bookCleanSlug
         IN  IF ~Has(poemSlugRaw(req))
             THEN Rendered(generateBookPage(b, bookUrl))
             ELSE LET p == poemOf(req, b)
                  IN  IF ~Has(p) THEN Forwarded(req)
                      ELSE Rendered(generatePoemPage(
                               b, Val(p), poemTextOf(b, Val(p)), bookUrl,
                               bookUrl \o <<"/">> \o createSlug(Val(p).title),
                               key, bookCleanSlug))

\* ----------------------------------------------------------------- Spec
\* One invocation of fetch(), from the request to what it returns.  The
\* steps are the stretches of code between two awaits.

MaxBooks == 2

BookA ==
    [bookTitle |-> <<"A", " ", "B">>, dedicatee |-> <<"D">>,
     releaseDate |-> <<"2", "0", "2", "0">>,
     image |-> <<"/", "c", "/", "c", "o", "v", "e", "r", ".", "j", "p", "g">>,
     poemCount |-> 3,
     poems |-> <<[number |-> 1, title |-> <<"K", "'", "s", " ", "S">>],
                 [number |-> 2, title |-> <<"a", "-", "b">>],
                 [number |-> 3, title |-> <<"k", "s", " ", "s">>]>>,
     content |-> <<(1 :> <<"<", "p", ">", "x", "<", "/", "p", ">">>)>>]

BookB ==
    [bookTitle |-> <<"B">>, dedicatee |-> <<"E">>,
     releaseDate |-> <<"2", "0", "2", "1">>,
     image |-> <<"/", "d", "/", "c", "o", "v", "e", "r", ".", "j", "p", "g">>,
     poemCount |-> 1,
     poems |-> <<[number |-> 1, title |-> <<"B">>]>>,
     content |-> <<<<>>>>]

Books == {BookA, BookB}

\* The JSON arrays a collection source may hold.
Libraries == UNION {[1..n -> Books] : n \in 0..MaxBooks}

\* How the fetch of line 72 and res.json() of line 74 may end: the fetch
\* rejects, the status is not 2xx, the body is no JSON, the body is an array
\* of books.
Answers ==
    {[type |-> "reject", ok |-> FALSE, parses |-> FALSE, data |-> <<>>],
     [type |-> "response", ok |-> FALSE, parses |-> FALSE, data |-> <<>>],
     [type |-> "response", ok |-> TRUE, parses |-> FALSE, data |-> <<>>]}
    \cup {[type |-> "response", ok |-> TRUE, parses |-> TRUE, data |-> d] :
            d \in Libraries}

\* The user-agent header: absent, empty, a browser's, a crawler's.
UserAgents ==
    {<<>>, Some(<<>>),
     Some(<<"M", "o", "z", "i", "l", "l", "a", "/", "5", ".", "0">>),
     Some(<<"G", "o", "o", "g", "l", "e">>),
     Some(<<"G", "o", "o", "g", "l", "e", "b", "o", "t", "/", "2", ".", "1">>),
     Some(<<"c", "o", "m", "p", "a", "t", "i", "b", "l", "e", ";", " ", "B", "I", "N", "G", "B", "O", "T">>)}

BookSegments ==
    {<<>>, <<"a">>, <<"b">>, <<"a", "-", "b">>, <<"A", "-", "B">>, <<"z", "z">>}

PathTails ==
    {<<>>, <<"/">>, <<"/", "k", "s", "-", "s">>, <<"/", "K", "S", "-", "S">>, <<"/", "k", "-", "s">>, <<"/", "k", "s">>, <<"/", "a", "-", "b">>, <<"/", "b", "/", "x">>}

Pathnames ==
    {PoetryPrefix \o b \o t : b \in BookSegments, t \in PathTails}
    \cup {<<"/">>, <<"/", "p", "o", "e", "t", "r", "y">>, <<"/", "P", "o", "e", "t", "r", "y", "/", "a", "-", "b", "/", "k", "s", "-", "s">>, <<"/", "x", "/", "p", "o", "e", "t", "r", "y", "/", "a", "-", "b">>}

EnvValues == {"undefined", "", "https://data.example/books.json"}

Init ==
    /\ request \in [pathname : Pathnames, ua : UserAgents]
    /\ env \in [FRITH_HILTON_JSON : EnvValues, DR_CARL_HILL_JSON : EnvValues,
                WEST_TO_WEST_JSON : EnvValues]
    /\ pc = "start" /\ loopAt = 0
    /\ book = <<>> /\ collectionKey = <<>> /\ poem = <<>>
    /\ inflight = {} /\ fetchLog = <<>> /\ answers = <<>> /\ result = <<>>
    /\ norm = Idle /\ page = Idle
    /\ ConcIdle

\* Line 72 for the i-th collection: the fetch is issued and awaited.
IssueFetch(i) ==
    /\ pc' = "fetching"
    /\ loopAt' = i
    /\ inflight' = inflight \cup {COLLECTIONS[i]}
    /\ fetchLog' = Append(fetchLog, COLLECTIONS[i])

\* The invocation returns r.
Return(r) ==
    /\ pc' = "done"
    /\ result' = r

\* Lines 47-53 for a request that is not intercepted.
PassThrough ==
    /\ pc = "start"
    /\ ~intercepts(request)
    /\ Return(Forwarded(request))
    /\ UNCHANGED <<norm, page, request, env, loopAt, book, collectionKey, poem,
                   inflight, fetchLog, answers, concVars>>

\* Lines 47-72 for a request that is intercepted: up to the first fetch, or
\* to the end when no collection is configured.
Begin ==
    /\ pc = "start"
    /\ intercepts(request)
    /\ LET i == nextFetch(env, 1)
       IN  IF i <= NKeys
           THEN IssueFetch(i) /\ UNCHANGED result
           ELSE /\ Return(respond(request, <<>>, <<>>))
                /\ UNCHANGED <<loopAt, inflight, fetchLog>>
    /\ UNCHANGED <<norm, page, request, env, book, collectionKey, poem, answers,
                   concVars>>

\* Lines 72-130 once the fetch awaited is answered: the rest of this turn of
\* the loop, then the loop up to its next fetch, or the rest of fetch().
Answer ==
    /\ pc = "fetching"
    /\ \E a \in Answers :
        LET step == loopBody(a, bookSlug(request))
            found == IF Has(step.book) THEN step.book ELSE book
            key == IF Has(step.book) THEN COLLECTIONS[loopAt] ELSE collectionKey
            i == IF step.ctl = "continue" THEN nextFetch(env, loopAt + 1)
                 ELSE NKeys + 1
        IN  /\ answers' = Append(answers, a)
            /\ book' = found
            /\ collectionKey' = key
            /\ IF step.ctl = "throw"
               THEN /\ Return(Thrown)
                    /\ inflight' = inflight \ {COLLECTIONS[loopAt]}
                    /\ UNCHANGED <<loopAt, fetchLog, poem>>
               ELSE IF i <= NKeys
               THEN /\ pc' = "fetching"
                    /\ loopAt' = i
                    /\ inflight' = (inflight \ {COLLECTIONS[loopAt]}) \cup {COLLECTIONS[i]}
                    /\ fetchLog' = Append(fetchLog, COLLECTIONS[i])
                    /\ UNCHANGED <<result, poem>>
               ELSE /\ Return(respond(request, found, key))
                    /\ poem' = IF Has(found) THEN poemOf(request, Val(found)) ELSE <<>>
                    /\ inflight' = inflight \ {COLLECTIONS[loopAt]}
                    /\ UNCHANGED <<loopAt, fetchLog>>
    /\ UNCHANGED <<norm, page, request, env, concVars>>

Next == PassThrough \/ Begin \/ Answer

Spec == Init /\ [][Next]_vars

\* --------------------------------------------------- the claims of Spec

Done == pc = "done"

\* The claims' own reading of the request.
\* The path is /poetry/ followed by at least one character.
OnPoetryPath ==
    /\ Len(request.pathname) > Len(PoetryPrefix)
    /\ SubSeq(request.pathname, 1, Len(PoetryPrefix)) = PoetryPrefix

\* The user agent, "" when the header is missing, holds a crawler signature
\* in whatever case.
FromCrawler ==
    LET ua == IF request.ua = <<>> THEN <<>> ELSE request.ua[1]
    IN  \E sig \in CrawlerSignatures :
            \E i \in 0..(Len(ua) - Len(sig)) :
                toLowerCase(SubSeq(ua, i + 1, i + Len(sig))) = toLowerCase(sig)

\* The lower-cased book segment: the path after /poetry/ up to the first "/".
BookSegment ==
    LET rest == SubSeq(request.pathname, Len(PoetryPrefix) + 1,
                       Len(request.pathname))
        cut == IF \E i \in 1..Len(rest) : rest[i] = "/"
               THEN CHOOSE i \in 1..Len(rest) :
                        rest[i] = "/" /\ \A j \in 1..(i - 1) : rest[j] # "/"
               ELSE Len(rest) + 1
    IN  toLowerCase(SubSeq(rest, 1, cut - 1))

\* The symmetric containment test of a book against the book segment.
SymmetricMatch(b) ==
    LET slug == createSlug(b.bookTitle)
        Within(x, y) == \E i \in 0..(Len(y) - Len(x)) : SubSeq(y, i + 1, i + Len(x)) = x
    IN  Within(BookSegment, slug) \/ Within(slug, BookSegment)

\* The k-th fetch was answered with an array of books.
Succeeded(k) == answers[k].type = "response" /\ answers[k].ok /\ answers[k].parses

\* The k-th fetch was answered with an array that holds a matching book.
HasMatch(k) ==
    Succeeded(k) /\ \E j \in 1..Len(answers[k].data) : SymmetricMatch(answers[k].data[j])

\* The place of a key in the fixed order.
OrderOf(key) == CHOOSE i \in 1..NKeys : COLLECTIONS[i] = key

\* C1: a crawler's request on a poetry path ends in a rendered page or in the
\* request forwarded to the origin, whatever the collection sources answer;
\* never in an error response or an exception.
C1_RenderedOrForwarded ==
    (Done /\ OnPoetryPath /\ FromCrawler) =>
        \/ result = Forwarded(request)
        \/ /\ result.kind = "html"
           /\ result.status = 200
           /\ result.page.template \in {"book", "poem"}

\* All three sources fail, each in its own way, and the request is forwarded.
C1_Witness ==
    /\ Done /\ OnPoetryPath /\ FromCrawler
    /\ Len(answers) = 3
    /\ answers[1].type = "reject"
    /\ answers[2].type = "response" /\ ~answers[2].ok
    /\ answers[3].ok /\ ~answers[3].parses
    /\ result.kind = "forward"

\* C2: a request that is not on a poetry path, or not from a crawler, is
\* forwarded to the origin as it came, and no collection source is fetched.
C2_OthersForwarded ==
    ~(OnPoetryPath /\ FromCrawler) =>
        /\ fetchLog = <<>> /\ answers = <<>> /\ inflight = {}
        /\ Done => result = [kind |-> "forward", request |-> request]

\* A crawler off the poetry paths has its request forwarded.
C2_Witness ==
    /\ Done /\ FromCrawler /\ ~OnPoetryPath
    /\ request.pathname = <<"/", "x", "/", "p", "o", "e", "t", "r", "y", "/", "a", "-", "b">>
    /\ result.kind = "forward"

\* C3: the book resolved is the first matching book, in list order, of the
\* first collection, in the fixed order among those configured and fetched
\* with success, that holds a book matching by symmetric containment; the
\* request is forwarded for want of a book exactly when no collection
\* fetched with success holds such a book.
C3_FirstMatchWins ==
    (Done /\ OnPoetryPath /\ FromCrawler) =>
        /\ Has(book) <=> \E k \in 1..Len(answers) : HasMatch(k)
        /\ ~Has(book) => result = Forwarded(request)
        /\ Has(book) =>
            LET k == CHOOSE m \in 1..Len(answers) :
                        HasMatch(m) /\ \A n \in 1..(m - 1) : ~HasMatch(n)
                data == answers[k].data
                j == CHOOSE m \in 1..Len(data) :
                        /\ SymmetricMatch(data[m])
                        /\ \A n \in 1..(m - 1) : ~SymmetricMatch(data[n])
            IN  /\ book = <<data[j]>>
                /\ collectionKey = fetchLog[k]
                /\ \A i \in 1..(OrderOf(fetchLog[k]) - 1) :
                       Configured(env, i) =>
                           \E n \in 1..(k - 1) : fetchLog[n] = COLLECTIONS[i]

\* The segment "a" matches no book of the first collection and the second
\* book of the second collection.
C3_Witness ==
    /\ Done /\ FromCrawler /\ OnPoetryPath
    /\ BookSegment = <<"a">>
    /\ Len(answers) = 2
    /\ answers[1].data = <<BookB>>
    /\ answers[2].data = <<BookB, BookA>>
    /\ book = <<BookA>>
    /\ collectionKey = COLLECTIONS[2]

\* The k-th fetch failed: it was rejected, or answered with another status
\* than success, or with a body that is no JSON.
Failed(k) == ~Succeeded(k)

\* C4: a collection whose fetch fails does not end the resolution: the next
\* configured collection is fetched, and a matching book of a later collection
\* is the book resolved.
C4_FailureNotFatal ==
    /\ \A k \in 1..Len(answers) :
          (/\ Failed(k)
           /\ \E i \in (OrderOf(fetchLog[k]) + 1)..NKeys : Configured(env, i))
          => Len(fetchLog) > k
    /\ Done =>
          \A k \in 1..Len(answers) :
              (HasMatch(k) /\ \A n \in 1..(k - 1) : Failed(n)) =>
                  /\ Has(book)
                  /\ \E j \in 1..Len(answers[k].data) : book = <<answers[k].data[j]>>
                  /\ collectionKey = fetchLog[k]

\* The first collection answers with a status that is no success, the second
\* holds the book.
C4_Witness ==
    /\ Done
    /\ Len(answers) = 2
    /\ answers[1].type = "response" /\ ~answers[1].ok
    /\ answers[2].data = <<BookA>>
    /\ book = <<BookA>>
    /\ collectionKey = COLLECTIONS[2]
    /\ result.kind = "html"

\* The poem segment of the request: the second segment of the path after
\* /poetry/, lower-cased, when it is there and not empty.
PoemSegment == poemSlugRaw(request)

\* C5: with a book resolved and a poem segment that is not empty, the poem
\* resolved is the first poem of the book whose match key equals the search
\* string made from the segment, and the request is forwarded when no match
\* key equals it, as for a segment that is only part of a match key.
C5_PoemExactMatch ==
    (Done /\ Has(book) /\ Has(PoemSegment)) =>
        LET poems == Val(book).poems
            search == searchString(Val(PoemSegment))
            Equal(i) == cleanTitleForMatch(poems[i].title) = search
        IN  IF \E i \in 1..Len(poems) : Equal(i)
            THEN /\ poem = <<poems[CHOOSE i \in 1..Len(poems) :
                                Equal(i) /\ \A j \in 1..(i - 1) : ~Equal(j)]>>
                 /\ result.kind = "html"
                 /\ result.page.template = "poem"
                 /\ result.page.values[1] = Val(poem).title
            ELSE /\ poem = <<>>
                 /\ result = Forwarded(request)

\* The segment "ks" is part of the match key "ks s" of two poems of the book
\* and equal to none: the request is forwarded.
C5_Witness ==
    /\ Done
    /\ book = <<BookA>>
    /\ PoemSegment = <<<<"k", "s">>>>
    /\ poem = <<>>
    /\ result.kind = "forward"

\* C7: a poem resolved whose content entry is absent is rendered all the
\* same, and its body is the placeholder, not the empty string.
C7_PlaceholderBody ==
    (Done /\ Has(poem) /\ Val(poem).number \notin DOMAIN Val(book).content[1]) =>
        /\ result.kind = "html"
        /\ result.page.template = "poem"
        /\ result.page.body = Placeholder
        /\ trim(stripTags(result.page.body)) =
             <<"F", "u", "l", "l", " ", "p", "o", "e", "m", " ", "a", "v", "a", "i", "l", "a", "b", "l", "e", " ", "i", "n", " ", "t", "h", "e", " ", "b", "o", "o", "k", ".">>

\* The only poem of the second book has no content entry.
C7_Witness ==
    /\ Done
    /\ book = <<BookB>>
    /\ poem = <<BookB.poems[1]>>
    /\ BookB.content[1] = <<>>
    /\ result.kind = "html"

\* C10: the collection fetches of an invocation are issued one at a time in
\* the fixed order: at most one is outstanding, no collection is fetched
\* twice, none whose source is unset or empty, and none once an earlier
\* collection has produced a matching book.
C10_SequentialFetches ==
    /\ Cardinality(inflight) <= 1
    /\ Len(answers) <= Len(fetchLog) /\ Len(fetchLog) <= Len(answers) + 1
    /\ inflight = IF Len(fetchLog) > Len(answers)
                  THEN {fetchLog[Len(fetchLog)]} ELSE {}
    /\ \A k \in 1..Len(fetchLog) :
          /\ fetchLog[k] \in {COLLECTIONS[i] : i \in 1..NKeys}
          /\ Configured(env, OrderOf(fetchLog[k]))
          /\ \A n \in 1..(k - 1) :
                /\ OrderOf(fetchLog[n]) < OrderOf(fetchLog[k])
                /\ ~HasMatch(n)

\* The second source is the empty string: the first and the third collection
\* are fetched, the third while the first is answered.
C10_Witness ==
    /\ env.DR_CARL_HILL_JSON = ""
    /\ fetchLog = <<COLLECTIONS[1], COLLECTIONS[3]>>
    /\ Len(answers) = 1
    /\ inflight = {COLLECTIONS[3]}

\* The k-th fetch was answered with an array that holds at least one book.
HasBooks(k) == Succeeded(k) /\ Len(answers[k].data) >= 1

\* The configured collections, in the fixed order.
ConfiguredKeys ==
    SelectSeq(COLLECTIONS, LAMBDA key : Configured(env, OrderOf(key)))

\* C12: for a crawler's request with an empty book segment (/poetry//x) every
\* book passes the symmetric containment test, so the book resolved is the
\* first book of the first collection, in the fixed order, that is
\* configured, fetched with success and not empty; x is then resolved as a
\* poem of that book; the request is forwarded for want of a book only when
\* every configured collection has been fetched and has failed or was empty.
C12_EmptySegmentFirstBook ==
    (Done /\ FromCrawler /\ OnPoetryPath /\ BookSegment = <<>>) =>
        /\ \A k \in 1..Len(answers) :
              \A j \in 1..Len(answers[k].data) : SymmetricMatch(answers[k].data[j])
        /\ Has(book) <=> \E k \in 1..Len(answers) : HasBooks(k)
        /\ ~Has(book) =>
              /\ fetchLog = ConfiguredKeys
              /\ Len(answers) = Len(fetchLog)
              /\ \A k \in 1..Len(answers) : Failed(k) \/ answers[k].data = <<>>
              /\ result = Forwarded(request)
        /\ Has(book) =>
              LET k == CHOOSE m \in 1..Len(answers) :
                          HasBooks(m) /\ \A n \in 1..(m - 1) : ~HasBooks(n)
                  first == answers[k].data[1]
                  poems == first.poems
                  Equal(i) == cleanTitleForMatch(poems[i].title)
                                = searchString(Val(PoemSegment))
              IN  /\ k = Len(answers)
                  /\ fetchLog = SubSeq(ConfiguredKeys, 1, k)
                  /\ book = <<first>>
                  /\ collectionKey = fetchLog[k]
                  /\ IF ~Has(PoemSegment)
                     THEN /\ result.kind = "html"
                          /\ result.page.template = "book"
                          /\ result.page.values[1] = first.bookTitle
                     ELSE IF \E i \in 1..Len(poems) : Equal(i)
                     THEN /\ result.kind = "html"
                          /\ result.page.template = "poem"
                          /\ poem = <<poems[CHOOSE i \in 1..Len(poems) :
                                         Equal(i) /\ \A j \in 1..(i - 1) : ~Equal(j)]>>
                          /\ result.page.values[1] = Val(poem).title
                          /\ result.page.values[8] = first.bookTitle
                     ELSE /\ poem = <<>>
                          /\ result = Forwarded(request)

\* /poetry//ks-s: the first collection is empty, the second holds two books;
\* the first of them is resolved, though its slug "a-b" is no nearer to the
\* segment than the other's, and "ks-s" is resolved as its first poem.
C12_Witness ==
    /\ Done /\ FromCrawler
    /\ request.pathname = PoetryPrefix \o <<"/", "k", "s", "-", "s">>
    /\ Len(answers) = 2
    /\ Succeeded(1) /\ answers[1].data = <<>>
    /\ answers[2].data = <<BookA, BookB>>
    /\ book = <<BookA>>
    /\ collectionKey = COLLECTIONS[2]
    /\ poem = <<BookA.poems[1]>>
    /\ result.kind = "html"

\* ---------------------------------------------------- the JSON-LD blocks

\* The template literal between <script type="application/ld+json"> and
\* </script> of generateBookPage, lines 178-193: its strings, between which
\* the values go.
BookJsonLdStrings ==
    <<<<"LF", " ", " ", " ", " ", "{", "LF", " ", " ", " ", " ", " ", " ", " ", " ",
        "\"", "@", "c", "o", "n", "t", "e", "x", "t", "\"", ":", " ", "\"", "h", "t",
        "t", "p", "s", ":", "/", "/", "s", "c", "h", "e", "m", "a", ".", "o", "r", "g",
        "\"", ",", "LF", " ", " ", " ", " ", " ", " ", " ", " ", "\"", "@", "t", "y",
        "p", "e", "\"", ":", " ", "\"", "B", "o", "o", "k", "\"", ",", "LF", " ", " ",
        " ", " ", " ", " ", " ", " ", "\"", "n", "a", "m", "e", "\"", ":", " ", "\"">>,
      <<"\"", ",", "LF", " ", " ", " ", " ", " ", " ", " ", " ", "\"", "a", "u", "t",
        "h", "o", "r", "\"", ":", " ", "{", "\"", "@", "t", "y", "p", "e", "\"", ":",
        "\"", "P", "e", "r", "s", "o", "n", "\"", ",", "\"", "n", "a", "m", "e", "\"",
        ":", "\"", "H", "o", "w", "a", "r", "d", " ", "F", "r", "i", "t", "h", " ", "H",
        "i", "l", "t", "o", "n", "\"", "}", ",", "LF", " ", " ", " ", " ", " ", " ", " ",
        " ", "\"", "p", "u", "b", "l", "i", "s", "h", "e", "r", "\"", ":", " ", "{",
        "\"", "@", "t", "y", "p", "e", "\"", ":", "\"", "O", "r", "g", "a", "n", "i",
        "z", "a", "t", "i", "o", "n", "\"", ",", "\"", "n", "a", "m", "e", "\"", ":",
        "\"", "F", "o", "r", "e", "s", "t", " ", "C", "r", "i", "b", " ", "B", "o", "o",
        "k", "s", " ", "I", "m", "p", "r", "i", "n", "t", " ", "u", "n", "d", "e", "r",
        " ", "F", "r", "i", "t", "h", " ", "N", "i", "g", "h", "t", "s", "w", "a", "n",
        " ", "P", "u", "b", "l", "i", "s", "h", "e", "r", "s", "\"", "}", ",", "LF", " ",
        " ", " ", " ", " ", " ", " ", " ", "\"", "d", "a", "t", "e", "P", "u", "b", "l",
        "i", "s", "h", "e", "d", "\"", ":", " ", "\"">>,
      <<"\"", ",", "LF", " ", " ", " ", " ", " ", " ", " ", " ", "\"", "i", "n", "L",
        "a", "n", "g", "u", "a", "g", "e", "\"", ":", " ", "\"", "e", "n", "\"", ",",
        "LF", " ", " ", " ", " ", " ", " ", " ", " ", "\"", "g", "e", "n", "r", "e",
        "\"", ":", " ", "\"", "P", "o", "e", "t", "r", "y", "\"", ",", "LF", " ", " ",
        " ", " ", " ", " ", " ", " ", "\"", "k", "e", "y", "w", "o", "r", "d", "s", "\"",
        ":", " ", "\"">>,
      <<",", " ", "H", "o", "w", "a", "r", "d", " ", "F", "r", "i", "t", "h", " ", "H",
        "i", "l", "t", "o", "n", ",", " ", "F", "r", "i", "t", "h", " ", "H", "i", "l",
        "t", "o", "n", ",", " ", "P", "o", "e", "t", "r", "y", " ", "d", "e", "d", "i",
        "c", "a", "t", "e", "d", " ", "t", "o", " ">>,
      <<"\"", ",", "LF", " ", " ", " ", " ", " ", " ", " ", " ", "\"", "i", "m", "a",
        "g", "e", "\"", ":", " ", "\"">>,
      <<"\"", ",", "LF", " ", " ", " ", " ", " ", " ", " ", " ", "\"", "u", "r", "l",
        "\"", ":", " ", "\"">>,
      <<"\"", ",", "LF", " ", " ", " ", " ", " ", " ", " ", " ", "\"", "h", "a", "s",
        "P", "a", "r", "t", "\"", ":", " ">>,
      <<"LF", " ", " ", " ", " ", "}", "LF", " ", " ", " ", " ">>>>

\* The same of generatePoemPage, lines 257-274.
PoemJsonLdStrings ==
    <<<<"LF", " ", " ", " ", " ", "{", "LF", " ", " ", " ", " ", " ", " ", " ", " ",
        "\"", "@", "c", "o", "n", "t", "e", "x", "t", "\"", ":", " ", "\"", "h", "t",
        "t", "p", "s", ":", "/", "/", "s", "c", "h", "e", "m", "a", ".", "o", "r", "g",
        "\"", ",", "LF", " ", " ", " ", " ", " ", " ", " ", " ", "\"", "@", "t", "y",
        "p", "e", "\"", ":", " ", "\"", "C", "r", "e", "a", "t", "i", "v", "e", "W", "o",
        "r", "k", "\"", ",", "LF", " ", " ", " ", " ", " ", " ", " ", " ", "\"", "n",
        "a", "m", "e", "\"", ":", " ", "\"">>,
      <<"\"", ",", "LF", " ", " ", " ", " ", " ", " ", " ", " ", "\"", "a", "u", "t",
        "h", "o", "r", "\"", ":", " ", "{", "\"", "@", "t", "y", "p", "e", "\"", ":",
        "\"", "P", "e", "r", "s", "o", "n", "\"", ",", "\"", "n", "a", "m", "e", "\"",
        ":", "\"", "H", "o", "w", "a", "r", "d", " ", "F", "r", "i", "t", "h", " ", "H",
        "i", "l", "t", "o", "n", "\"", "}", ",", "LF", " ", " ", " ", " ", " ", " ", " ",
        " ", "\"", "d", "a", "t", "e", "P", "u", "b", "l", "i", "s", "h", "e", "d", "\"",
        ":", " ", "\"">>,
      <<"\"", ",", "LF", " ", " ", " ", " ", " ", " ", " ", " ", "\"", "u", "r", "l",
        "\"", ":", " ", "\"">>,
      <<"\"", ",", "LF", " ", " ", " ", " ", " ", " ", " ", " ", "\"", "t", "e", "x",
        "t", "\"", ":", " ", "\"">>,
      <<"\"", ",", "LF", " ", " ", " ", " ", " ", " ", " ", " ", "\"", "i", "m", "a",
        "g", "e", "\"", ":", " ", "\"", "/", "i", "m", "a", "g", "e", "s", "/">>,
      <<"/">>,
      <<"/">>,
      <<"_", "p", "a", "g", "e", "-", "1", ".", "p", "n", "g", "\"", ",", "LF", " ", " ",
        " ", " ", " ", " ", " ", " ", "\"", "i", "s", "P", "a", "r", "t", "O", "f", "\"",
        ":", " ", "{", "LF", " ", " ", " ", " ", " ", " ", " ", " ", " ", " ", " ", " ",
        "\"", "@", "t", "y", "p", "e", "\"", ":", " ", "\"", "B", "o", "o", "k", "\"",
        ",", "LF", " ", " ", " ", " ", " ", " ", " ", " ", " ", " ", " ", " ", "\"", "n",
        "a", "m", "e", "\"", ":", " ", "\"">>,
      <<"\"", ",", "LF", " ", " ", " ", " ", " ", " ", " ", " ", " ", " ", " ", " ",
        "\"", "u", "r", "l", "\"", ":", " ", "\"">>,
      <<"\"", "LF", " ", " ", " ", " ", " ", " ", " ", " ", "}", ",", "LF", " ", " ",
        " ", " ", " ", " ", " ", " ", "\"", "p", "o", "s", "i", "t", "i", "o", "n", "\"",
        ":", " ">>,
      <<"LF", " ", " ", " ", " ", "}", "LF", " ", " ", " ", " ">>>>

\* A template literal: strings[1] values[1] strings[2] ... strings[n + 1].
RECURSIVE cook(_, _)
cook(strings, values) ==
    IF values = <<>> THEN Head(strings)
    ELSE Head(strings) \o Head(values) \o cook(Tail(strings), Tail(values))

\* The text of the JSON-LD block of a page.
jsonLdText(html) ==
    cook(IF html.template = "book" THEN BookJsonLdStrings ELSE PoemJsonLdStrings,
         html.values)

\* --------------------------------------------------------- a JSON reader
\* What a reader of the block, such as JSON.parse, makes of a text, one
\* character at a time: the yardstick of C8, no code of the worker.  Numbers are
\* digits after an optional minus; true, false and null are not read, and
\* neither template holds one.

JsonStart ==
    [mode |-> "value", stack |-> <<>>, root |-> "none", key |-> <<>>, keys |-> {},
     hex |-> 0]

JsonSpace(c) == c \in {" ", "LF", "TAB", "CR"}

JsonControl(c) == c \in {"LF", "TAB", "CR"}

JsonEscapes == {"\"", "\\", "/", "b", "f", "n", "r", "t"}

HexDigits == Digits \cup {"a", "b", "c", "d", "e", "f", "A", "B", "C", "D", "E", "F"}

Bad(st) == [st EXCEPT !.mode = "bad"]

Pop(st) ==
    [st EXCEPT !.mode = "after", !.stack = SubSeq(st.stack, 1, Len(st.stack) - 1)]

\* The reader where a value may start.
JsonValueStep(st, c) ==
    LET top == st.stack = <<>>
    IN  CASE JsonSpace(c) -> st
          [] c = "\"" -> [st EXCEPT !.mode = "inStr",
                                   !.root = IF top THEN "other" ELSE st.root]
          [] c = "{" -> [st EXCEPT !.mode = "keyOrEnd", !.stack = Append(st.stack, "{"),
                                  !.root = IF top THEN "object" ELSE st.root]
          [] c = "[" -> [st EXCEPT !.mode = "valueOrEnd", !.stack = Append(st.stack, "["),
                                  !.root = IF top THEN "other" ELSE st.root]
          [] c \in Digits \cup {"-"} ->
                 [st EXCEPT !.mode = "num", !.root = IF top THEN "other" ELSE st.root]
          [] OTHER -> Bad(st)

\* The reader after a value.
JsonAfterStep(st, c) ==
    LET top == IF st.stack = <<>> THEN "" ELSE st.stack[Len(st.stack)]
    IN  CASE JsonSpace(c) -> [st EXCEPT !.mode = "after"]
          [] c = "," /\ top = "{" -> [st EXCEPT !.mode = "key"]
          [] c = "," /\ top = "[" -> [st EXCEPT !.mode = "value"]
          [] c = "}" /\ top = "{" -> Pop(st)
          [] c = "]" /\ top = "[" -> Pop(st)
          [] OTHER -> Bad(st)

\* The reader inside a string, a key (inKey) or a value (inStr).
JsonStringStep(st, c) ==
    LET isKey == st.mode \in {"inKey", "inKeyEsc", "inKeyHex"}
        plain == IF isKey THEN "inKey" ELSE "inStr"
    IN  IF st.mode \in {"inKeyEsc", "inStrEsc"}
        THEN IF c \in JsonEscapes THEN [st EXCEPT !.mode = plain]
             ELSE IF c = "u"
             THEN [st EXCEPT !.mode = IF isKey THEN "inKeyHex" ELSE "inStrHex",
                             !.hex = 4]
             ELSE Bad(st)
        ELSE IF st.mode \in {"inKeyHex", "inStrHex"}
        THEN IF c \notin HexDigits THEN Bad(st)
             ELSE IF st.hex = 1 THEN [st EXCEPT !.mode = plain, !.hex = 0]
             ELSE [st EXCEPT !.hex = st.hex - 1]
        ELSE CASE c = "\"" /\ isKey ->
                    [st EXCEPT !.mode = "colon",
                               !.keys = IF Len(st.stack) = 1
                                        THEN st.keys \cup {st.key} ELSE st.keys]
               [] c = "\"" /\ ~isKey -> [st EXCEPT !.mode = "after"]
               [] c = "\\" -> [st EXCEPT !.mode = IF isKey THEN "inKeyEsc" ELSE "inStrEsc"]
               [] JsonControl(c) -> Bad(st)
               [] OTHER -> IF isKey THEN [st EXCEPT !.key = Append(st.key, c)] ELSE st

\* The reader's step on one character.
JsonStep(st, c) ==
    CASE st.mode = "bad" -> st
      [] st.mode = "value" -> JsonValueStep(st, c)
      [] st.mode = "valueOrEnd" -> IF c = "]" THEN Pop(st) ELSE JsonValueStep(st, c)
      [] st.mode = "keyOrEnd" ->
             IF JsonSpace(c) THEN st
             ELSE IF c = "}" THEN Pop(st)
             ELSE IF c = "\"" THEN [st EXCEPT !.mode = "inKey", !.key = <<>>]
             ELSE Bad(st)
      [] st.mode = "key" ->
             IF JsonSpace(c) THEN st
             ELSE IF c = "\"" THEN [st EXCEPT !.mode = "inKey", !.key = <<>>]
             ELSE Bad(st)
      [] st.mode = "colon" ->
             IF JsonSpace(c) THEN st
             ELSE IF c = ":" THEN [st EXCEPT !.mode = "value"]
             ELSE Bad(st)
      [] st.mode = "num" -> IF c \in Digits THEN st ELSE JsonAfterStep(st, c)
      [] st.mode = "after" -> JsonAfterStep(st, c)
      [] OTHER -> JsonStringStep(st, c)

\* The reader run over text[lo..hi].
RECURSIVE jsonScan(_, _, _, _)
jsonScan(text, lo, hi, st) ==
    IF lo > hi THEN st
    ELSE IF lo = hi THEN JsonStep(st, text[lo])
    ELSE LET mid == (lo + hi) \div 2
             half == jsonScan(text, lo, mid, st)
         IN  IF half.mode = "bad" THEN half ELSE jsonScan(text, mid + 1, hi, half)

\* JSON.parse(text): the reader's state at the end of the text.
jsonParse(text) == jsonScan(text, 1, Len(text), JsonStart)

\* The text is one JSON object, and these are among its keys.
IsJsonObjectWith(text, required) ==
    LET st == jsonParse(text)
    IN  /\ st.mode = "after"
        /\ st.stack = <<>>
        /\ st.root = "object"
        /\ required \subseteq st.keys

\* ----------------------------------------------------------- SpecRender
\* The two page generators on a book one of whose texts is any text of at
\* most MaxText characters.

MaxText == 3

TextChars == {"a", "\"", "\\", "LF", "<"}

Texts == UNION {[1..n -> TextChars] : n \in 0..MaxText}

TextFields == {"bookTitle", "dedicatee", "releaseDate", "poemTitle", "poemText"}

\* BookA with one of the texts the collection source supplies replaced.
BookWith(field, text) ==
    CASE field = "poemTitle" ->
             [BookA EXCEPT !.poems = <<[number |-> 1, title |-> text]>>]
      [] field = "poemText" -> [BookA EXCEPT !.content = <<(1 :> text)>>]
      [] OTHER -> [BookA EXCEPT ![field] = text]

InitRender ==
    /\ page \in {[stage |-> "input", field |-> f, text |-> t,
                  book |-> BookWith(f, t)] : f \in TextFields, t \in Texts}
    /\ norm = Idle
    /\ HandlerIdle
    /\ ConcIdle

\* `bookUrl` of line 96.
bookUrlOf(b) == PoetryOrigin \o createSlug(b.bookTitle)

\* Line 100: the book-index page of the book.
RenderBook ==
    /\ page.stage = "input"
    /\ page' = [stage |-> "book", field |-> page.field, text |-> page.text,
                book |-> page.book,
                html |-> generateBookPage(page.book, bookUrlOf(page.book))]
    /\ UNCHANGED <<norm, handlerVars, concVars>>

\* Lines 121-128: the poem page of the first poem of the book.
RenderPoem ==
    /\ page.stage = "input"
    /\ LET b == page.book
           p == b.poems[1]
       IN  page' = [stage |-> "poem", field |-> page.field, text |-> page.text,
                    book |-> b,
                    html |-> generatePoemPage(
                                b, p, poemTextOf(b, p), bookUrlOf(b),
                                bookUrlOf(b) \o <<"/">> \o createSlug(p.title),
                                COLLECTIONS[1], createSlug(b.bookTitle))]
    /\ UNCHANGED <<norm, handlerVars, concVars>>

NextRender == RenderBook \/ RenderPoem

SpecRender == InitRender /\ [][NextRender]_vars

\* C8: the JSON-LD block of every page rendered is one JSON object that
\* parses and has the keys @type and url, whatever the texts of the book.
C8_JsonLdParses ==
    page.stage \in {"book", "poem"} =>
        IsJsonObjectWith(jsonLdText(page.html),
                         {<<"@", "t", "y", "p", "e">>, <<"u", "r", "l">>})

\* -------------------------------------------------------------- SpecConc
\* Several invocations of fetch() in one isolate, interleaved at their
\* awaits (lines 72 and 74).  What belongs to an invocation follows the
\* declarations of the source: request and env are parameters of fetch()
\* (line 46), every const and let of lines 47-125 is a local of it; at module
\* level there are only the functions createSlug, cleanTitleForMatch,
\* generateBookPage and generatePoemPage, which hold no state.

MaxInvocations == 2

Invocations == 1..MaxInvocations

\* `book` and `collectionKey` declared at module level: one binding that all
\* invocations share.
scopeOfModule(i) == 1

\* The environment record that holds `book` and `collectionKey` of invocation
\* i: lines 65-66 declare them with `let` in the body of fetch(), so each call
\* has a record of its own.
scopeOf(i) == i

GooglebotUa == Some(<<"G", "o", "o", "g", "l", "e", "b", "o", "t", "/", "2", ".", "1">>)

\* A crawler's request for a poem, one for a book, and a browser's request.
ConcRequests ==
    {[pathname |-> PoetryPrefix \o <<"a", "/", "k", "s", "-", "s">>, ua |-> GooglebotUa],
     [pathname |-> PoetryPrefix \o <<"b">>, ua |-> GooglebotUa],
     [pathname |-> PoetryPrefix \o <<"b">>,
      ua |-> Some(<<"M", "o", "z", "i", "l", "l", "a", "/", "5", ".", "0">>)]}

\* Bindings with two sources, with one, with none.
ConcEnvs ==
    {[FRITH_HILTON_JSON |-> "https://data.example/frith.json",
      DR_CARL_HILL_JSON |-> "undefined",
      WEST_TO_WEST_JSON |-> "https://data.example/west.json"],
     [FRITH_HILTON_JSON |-> "",
      DR_CARL_HILL_JSON |-> "https://data.example/carl.json",
      WEST_TO_WEST_JSON |-> "undefined"],
     [FRITH_HILTON_JSON |-> "undefined",
      DR_CARL_HILL_JSON |-> "undefined",
      WEST_TO_WEST_JSON |-> "undefined"]}

\* The fetch rejects, or is answered with an array of one book.
ConcAnswers ==
    {a \in Answers : a.type = "reject" \/ (a.parses /\ Len(a.data) = 1)}

InitConc ==
    /\ calls \in [Invocations ->
                    {[request |-> r, env |-> e, pc |-> "start", loopAt |-> 0,
                      poem |-> <<>>, fetchLog |-> <<>>, answers |-> <<>>,
                      result |-> <<>>] : r \in ConcRequests, e \in ConcEnvs}]
    /\ bindings = [i \in Invocations |-> [book |-> <<>>, collectionKey |-> <<>>]]
    /\ outbound = {}
    /\ norm = Idle /\ page = Idle
    /\ HandlerIdle

\* fetch(jsonUrl) of line 72: a URL string and no init, so a GET with no body.
CollectionFetch(i, k) ==
    [by |-> i, method |-> "GET", url |-> jsonUrl(calls[i].env, k), body |-> "none"]

\* fetch(request) of lines 53, 92 and 118: the Request object as it came.
OriginFetch(i) ==
    [by |-> i, method |-> "request.method", url |-> "request.url",
     body |-> "request.body"]

\* The subrequests after invocation i has returned r.
outboundAfter(i, r) ==
    IF r.kind = "forward" THEN outbound \cup {OriginFetch(i)} ELSE outbound

\* Lines 47-53 of an invocation whose request is not intercepted.
InvPassThrough ==
    \E i \in Invocations :
        /\ calls[i].pc = "start"
        /\ ~intercepts(calls[i].request)
        /\ calls' = [calls EXCEPT ![i].pc = "done",
                                  ![i].result = Forwarded(calls[i].request)]
        /\ outbound' = outbound \cup {OriginFetch(i)}
        /\ UNCHANGED <<bindings, norm, handlerVars, page>>

\* Lines 47-72 of an invocation whose request is intercepted: `book` and
\* `collectionKey` are initialised, then the first fetch is issued, or the
\* request is forwarded when no collection is configured.
InvBegin ==
    \E i \in Invocations :
        /\ calls[i].pc = "start"
        /\ intercepts(calls[i].request)
        /\ LET c == calls[i]
               k == nextFetch(c.env, 1)
               r == respond(c.request, <<>>, <<>>)
           IN  /\ bindings' = [bindings EXCEPT ![scopeOf(i)] =
                                  [book |-> <<>>, collectionKey |-> <<>>]]
               /\ IF k <= NKeys
                  THEN /\ calls' = [calls EXCEPT
                                       ![i].pc = "fetching",
                                       ![i].loopAt = k,
                                       ![i].fetchLog = Append(@, COLLECTIONS[k])]
                       /\ outbound' = outbound \cup {CollectionFetch(i, k)}
                  ELSE /\ calls' = [calls EXCEPT ![i].pc = "done", ![i].result = r]
                       /\ outbound' = outboundAfter(i, r)
        /\ UNCHANGED <<norm, handlerVars, page>>

\* Lines 72-130 of an invocation whose fetch is answered: the rest of this
\* turn of the loop, then the loop up to its next fetch, or the rest of
\* fetch().  `book` is read at line 92 from the binding in scope.
InvAnswer ==
    \E i \in Invocations :
        /\ calls[i].pc = "fetching"
        /\ \E a \in ConcAnswers :
            LET c == calls[i]
                mine == bindings[scopeOf(i)]
                step == loopBody(a, bookSlug(c.request))
                found == IF Has(step.book) THEN step.book ELSE mine.book
                key == IF Has(step.book) THEN COLLECTIONS[c.loopAt]
                       ELSE mine.collectionKey
                k == IF step.ctl = "continue" THEN nextFetch(c.env, c.loopAt + 1)
                     ELSE NKeys + 1
                r == respond(c.request, found, key)
            IN  /\ bindings' = [bindings EXCEPT ![scopeOf(i)] =
                                   [book |-> found, collectionKey |-> key]]
                /\ IF step.ctl = "throw"
                   THEN /\ calls' = [calls EXCEPT ![i].pc = "done",
                                                  ![i].answers = Append(@, a),
                                                  ![i].result = Thrown]
                        /\ UNCHANGED outbound
                   ELSE IF k <= NKeys
                   THEN /\ calls' = [calls EXCEPT
                                        ![i].pc = "fetching",
                                        ![i].answers = Append(@, a),
                                        ![i].loopAt = k,
                                        ![i].fetchLog = Append(@, COLLECTIONS[k])]
                        /\ outbound' = outbound \cup {CollectionFetch(i, k)}
                   ELSE /\ calls' = [calls EXCEPT
                                        ![i].pc = "done",
                                        ![i].answers = Append(@, a),
                                        ![i].poem = IF Has(found)
                                                    THEN poemOf(c.request, Val(found))
                                                    ELSE <<>>,
                                        ![i].result = r]
                        /\ outbound' = outboundAfter(i, r)
        /\ UNCHANGED <<norm, handlerVars, page>>

NextConc == InvPassThrough \/ InvBegin \/ InvAnswer

SpecConc == InitConc /\ [][NextConc]_vars

\* ------------------------------------------------ the claim of SpecConc

\* Where an invocation that runs with no other stands, and with what book,
\* key, poem and outcome, once its fetches have got the answers ans in order:
\* the invocation of Spec as a function of its request, its env and the
\* answers.  n is the turn of the fetch to come, k its collection, log the
\* fetches made.
RECURSIVE AloneLoop(_, _, _, _, _, _)
AloneLoop(req, e, ans, n, k, log) ==
    IF k > NKeys
    THEN [pc |-> "done", book |-> <<>>, collectionKey |-> <<>>, poem |-> <<>>,
          fetchLog |-> log, result |-> respond(req, <<>>, <<>>)]
    ELSE IF n > Len(ans)
    THEN [pc |-> "fetching", book |-> <<>>, collectionKey |-> <<>>, poem |-> <<>>,
          fetchLog |-> Append(log, COLLECTIONS[k]), result |-> <<>>]
    ELSE LET step == loopBody(ans[n], bookSlug(req))
         IN  IF Has(step.book)
             THEN [pc |-> "done", book |-> step.book,
                   collectionKey |-> COLLECTIONS[k],
                   poem |-> poemOf(req, Val(step.book)),
                   fetchLog |-> Append(log, COLLECTIONS[k]),
                   result |-> respond(req, step.book, COLLECTIONS[k])]
             ELSE AloneLoop(req, e, ans, n + 1, nextFetch(e, k + 1),
                            Append(log, COLLECTIONS[k]))

Alone(req, e, ans) ==
    IF ~intercepts(req)
    THEN [pc |-> "done", book |-> <<>>, collectionKey |-> <<>>, poem |-> <<>>,
          fetchLog |-> <<>>, result |-> Forwarded(req)]
    ELSE AloneLoop(req, e, ans, 1, nextFetch(e, 1), <<>>)

\* The subrequests invocation i is entitled to: a GET of each collection
\* source it has fetched, and its own request forwarded if that is how it
\* ended.
OwnSubrequests(i) ==
    LET c == calls[i]
    IN  {[by |-> i, method |-> "GET", url |-> jsonUrl(c.env, OrderOf(c.fetchLog[n])),
          body |-> "none"] : n \in 1..Len(c.fetchLog)}
        \cup (IF c.pc = "done" /\ c.result.kind = "forward"
              THEN {[by |-> i, method |-> "request.method", url |-> "request.url",
                     body |-> "request.body"]}
              ELSE {})

\* C11: invocations interleaved at their fetches are independent: the book,
\* the collection key, the poem and the outcome of each are those of the same
\* invocation running alone with the same request, env and answers, so two
\* invocations with equal inputs stand equal; and the only subrequests made
\* are GETs of configured collection sources and requests forwarded as they
\* came, each by the invocation it belongs to.
C11_InvocationsIndependent ==
    /\ \A i \in Invocations :
          LET c == calls[i]
              mine == bindings[scopeOf(i)]
              alone == Alone(c.request, c.env, c.answers)
          IN  IF c.pc = "start"
              THEN c.answers = <<>> /\ c.fetchLog = <<>> /\ OwnSubrequests(i) = {}
              ELSE /\ c.pc = alone.pc
                   /\ c.fetchLog = alone.fetchLog
                   /\ c.poem = alone.poem
                   /\ intercepts(c.request) =>
                         /\ mine.book = alone.book
                         /\ mine.collectionKey = alone.collectionKey
                   /\ c.pc = "done" => c.result = alone.result
    /\ \A i, j \in Invocations :
          (/\ calls[i].pc = calls[j].pc
           /\ calls[i].request = calls[j].request
           /\ calls[i].env = calls[j].env
           /\ calls[i].answers = calls[j].answers
           /\ calls[i].pc = "done")
          => calls[i].result = calls[j].result
    /\ outbound = UNION {OwnSubrequests(i) : i \in Invocations}
    /\ \A o \in outbound :
          \/ o.method = "GET" /\ o.body = "none" /\ o.url \notin {"undefined", ""}
          \/ o.method = "request.method" /\ o.url = "request.url"

\* The two invocations have the same request and env.  The first is
\* suspended at its second fetch, its book still null; the second has meanwhile
\* resolved a book from its second answer and returned the poem page.
C11_Witness ==
    /\ calls[1].request = calls[2].request
    /\ calls[1].env = calls[2].env
    /\ calls[1].pc = "fetching"
    /\ Len(calls[1].answers) = 1 /\ Len(calls[1].fetchLog) = 2
    /\ bindings[scopeOf(1)].book = <<>>
    /\ calls[2].pc = "done"
    /\ Len(calls[2].answers) = 2
    /\ bindings[scopeOf(2)].book = <<BookA>>
    /\ bindings[scopeOf(2)].collectionKey = COLLECTIONS[3]
    /\ calls[2].result.kind = "html"
    /\ calls[2].result.page.template = "poem"
====
